---- MODULE Spec2Model ----
(***************************************************************************)
(* The two SCB pipelines of Python_pull (1_SCBdirect_estimate.py and       *)
(* 2_SCBpopDensity.py) as one state machine.  A run loads its config file, *)
(* issues one requests.post, looks at the declared response format and     *)
(* takes the CSV, PX or unknown branch.  Text that the code inspects       *)
(* character by character (the format word, the region names) is a         *)
(* sequence of one-character strings; names the code only compares or      *)
(* copies (column names, path segments) are strings.                       *)
(***************************************************************************)
EXTENDS Integers, Sequences, FiniteSets, TLC

VARIABLES
    pipeline,   \* 1: 1_SCBdirect_estimate.py, 2: 2_SCBpopDensity.py
    fs,         \* the file system: [dirs, files], paths relative to the cwd
    pc,         \* "Load", "Fetch", "Dispatch", "Done", "Failed"
    run,        \* 1 or 2: which invocation of the script this is
    cfg,        \* <<>> before Load, <<[payload, table_id]>> after it
    reply,      \* <<>> until the server has answered, then <<[status, body]>>
    r,          \* <<>> or <<the Response object of this run>>
    err,        \* "" or the exception that ended the run
    out,        \* what the run printed to standard output
    posts,      \* requests.post calls of this run
    steps,      \* the steps this run executed, in order
    fsStart,    \* the file system when this run started
    fsRun1      \* <<>> or <<the file system when run 1 ended>>

vars == <<pipeline, fs, pc, run, cfg, reply, r, err, out, posts, steps,
          fsStart, fsRun1>>

(***************************************************************************)
(* Bounds of the model.                                                    *)
(***************************************************************************)
MaxRows == 2
MaxCols == 4

(***************************************************************************)
(* Characters.                                                             *)
(***************************************************************************)
Digits == {"0", "1", "2", "3", "4", "5", "6", "7", "8", "9"}
Spaces == {" ", "\t"}

\* str.lower() on one character, for the letters the inputs use
LowerChar(c) ==
    CASE c = "C" -> "c"
      [] c = "O" -> "o"
      [] c = "U" -> "u"
      [] c = "N" -> "n"
      [] c = "T" -> "t"
      [] c = "Y" -> "y"
      [] c = "S" -> "s"
      [] c = "V" -> "v"
      [] c = "P" -> "p"
      [] c = "X" -> "x"
      [] c = "M" -> "m"
      [] c = "L" -> "l"
      [] OTHER -> c

\* str.lower()
Lower(s) == [i \in 1..Len(s) |-> LowerChar(s[i])]

\* the suffix of s from position i on
Drop(s, i) == SubSeq(s, i, Len(s))

\* how many leading characters of s belong to the class cls
RECURSIVE LeadingRun(_, _)
LeadingRun(s, cls) ==
    IF s # <<>> /\ Head(s) \in cls THEN 1 + LeadingRun(Tail(s), cls) ELSE 0

\* how many trailing characters of s belong to the class cls
RECURSIVE TrailingRun(_, _)
TrailingRun(s, cls) ==
    IF s # <<>> /\ s[Len(s)] \in cls
    THEN 1 + TrailingRun(SubSeq(s, 1, Len(s) - 1), cls)
    ELSE 0

\* .str.replace(r"^\d+\s+", "", regex=True): one or more digits at the very
\* start followed by one or more whitespace characters are removed
StripLeadingCode(s) ==
    LET d == LeadingRun(s, Digits)
        w == LeadingRun(Drop(s, d + 1), Spaces)
    IN  IF d >= 1 /\ w >= 1 THEN Drop(s, d + w + 1) ELSE s

CountyWord == <<"c", "o", "u", "n", "t", "y">>

\* .str.replace(r"\scounty$", "", regex=True[, flags=re.IGNORECASE]): one
\* whitespace character and the word at the very end are removed
StripCountySuffix(s, ignorecase) ==
    LET n    == Len(s)
        tail == IF n >= 7 THEN SubSeq(s, n - 5, n) ELSE <<>>
        word == IF ignorecase THEN Lower(tail) ELSE tail
    IN  IF n >= 7 /\ s[n - 6] \in Spaces /\ word = CountyWord
        THEN SubSeq(s, 1, n - 7)
        ELSE s

\* .str.strip()
Strip(s) ==
    LET a == LeadingRun(s, Spaces)
        b == TrailingRun(Drop(s, a + 1), Spaces)
    IN  SubSeq(s, a + 1, Len(s) - b)

\* re.IGNORECASE is passed by 2_SCBpopDensity.py only
IgnoreCase(p) == p = 2

\* the cleaning of one County value
CleanCounty(p, s) == Strip(StripCountySuffix(StripLeadingCode(s), IgnoreCase(p)))

(***************************************************************************)
(* Column names of the two datasets.                                       *)
(***************************************************************************)
\* the columns= argument of df.rename: source name -> output name
RenameMap(p) ==
    IF p = 1
    THEN [c \in {"region", "Percent 2025K1", "Margin of error ± percent 2025K1"} |->
            CASE c = "region" -> "County"
              [] c = "Percent 2025K1" -> "Percent_2025K1"
              [] OTHER -> "Percent_2025K1_me"]
    ELSE [c \in {"region", "Population density per sq. km 2024"} |->
            IF c = "region" THEN "County" ELSE "PopDensity_2024"]

\* the list the renamed frame is indexed with
Selection(p) ==
    IF p = 1
    THEN <<"County", "Percent_2025K1", "Percent_2025K1_me">>
    ELSE <<"County", "PopDensity_2024">>

\* output_filename of the csv branch
OutputFilename(p) == IF p = 1 THEN "direct_estimates.csv" ELSE "popdensity.csv"

\* config_path
ConfigPath(p) ==
    IF p = 1 THEN <<"data", "directEstimate.json">> ELSE <<"data", "popdensity.json">>

\* data_dir
DataDir == <<"data">>

(***************************************************************************)
(* DataFrames: [columns: sequence of names, rows: sequence of rows], a row *)
(* a sequence of cells aligned with columns, a cell a character sequence.  *)
(***************************************************************************)
\* the positions of the columns called name, in increasing order
RECURSIVE PositionsFrom(_, _, _)
PositionsFrom(cols, name, i) ==
    IF i > Len(cols) THEN <<>>
    ELSE (IF cols[i] = name THEN <<i>> ELSE <<>>) \o PositionsFrom(cols, name, i + 1)

Positions(cols, name) == PositionsFrom(cols, name, 1)

\* df.rename(columns=map): labels in the map are replaced, the others and
\* the keys the frame lacks are left alone
RenameColumns(df, map) ==
    [df EXCEPT !.columns =
        [i \in 1..Len(df.columns) |->
            IF df.columns[i] \in DOMAIN map THEN map[df.columns[i]] ELSE df.columns[i]]]

\* a selection that drops the labels the frame lacks instead of raising
MissingLabelIgnored(cols, names) == FALSE

\* df[names] raises KeyError when a name labels no column
MissingLabel(cols, names) == \E i \in 1..Len(names) : Positions(cols, names[i]) = <<>>

\* df[names]: for each name in turn, every column carrying that label
RECURSIVE SelectPositions(_, _)
SelectPositions(cols, names) ==
    IF names = <<>> THEN <<>>
    ELSE Positions(cols, Head(names)) \o SelectPositions(cols, Tail(names))

SelectColumns(df, names) ==
    LET idx == SelectPositions(df.columns, names)
    IN  [columns |-> [j \in 1..Len(idx) |-> df.columns[idx[j]]],
         rows    |-> [k \in 1..Len(df.rows) |->
                        [j \in 1..Len(idx) |-> df.rows[k][idx[j]]]]]

\* read_csv's type inference: a cell that reads as an integer
IsNumeric(cell) == cell # <<>> /\ \A i \in 1..Len(cell) : cell[i] \in Digits

\* a column whose every cell reads as a number gets a numeric dtype, on
\* which the .str accessor raises AttributeError
NumericColumn(df, j) ==
    /\ df.rows # <<>>
    /\ \A k \in 1..Len(df.rows) : IsNumeric(df.rows[k][j])

\* df_selected["County"] = df_selected["County"].str.replace(...)...strip()
CleanCountyColumn(p, df) ==
    LET pos == Positions(df.columns, "County")
    IN  IF Len(pos) # 1 \/ NumericColumn(df, pos[1])
        THEN [exc |-> "AttributeError", df |-> df]
        ELSE [exc |-> "",
              df  |-> [df EXCEPT !.rows =
                        [k \in 1..Len(df.rows) |->
                            [df.rows[k] EXCEPT ![pos[1]] = CleanCounty(p, @)]]]]

\* pd.read_csv(StringIO(r.text), sep=","): an empty text has no columns to
\* parse; any other text has a first line, which is the header
ReadCsv(body) ==
    IF body.kind = "empty"
    THEN [exc |-> "EmptyDataError", df |-> [columns |-> <<>>, rows |-> <<>>]]
    ELSE [exc |-> "", df |-> [columns |-> body.columns, rows |-> body.rows]]

\* the csv branch up to the frame that is saved
NormalizeCsv(p, body) ==
    LET parsed  == ReadCsv(body)
        renamed == RenameColumns(parsed.df, RenameMap(p))
    IN  IF parsed.exc # "" THEN parsed
        ELSE IF MissingLabel(renamed.columns, Selection(p))
        THEN [exc |-> "KeyError", df |-> renamed]
        ELSE CleanCountyColumn(p, SelectColumns(renamed, Selection(p)))

(***************************************************************************)
(* The file system: dirs is the set of directories and files maps each     *)
(* file's path to its content, the sequence of documents written into it   *)
(* (one document, unless something appends).  A path is the sequence of    *)
(* its segments, relative to the working directory <<>>.                   *)
(***************************************************************************)
\* the path the operating system reaches: "x/.." leads back to where x is
RECURSIVE Resolve(_, _)
Resolve(done, rest) ==
    IF rest = <<>> THEN done
    ELSE IF Head(rest) = ".." /\ done # <<>> /\ done[Len(done)] # ".."
    THEN Resolve(SubSeq(done, 1, Len(done) - 1), Tail(rest))
    ELSE Resolve(Append(done, Head(rest)), Tail(rest))

Parent(path) == SubSeq(path, 1, Len(path) - 1)

\* Path.mkdir(parents=True) without exist_ok: an existing directory raises
MkdirNotExistOk(f, path) ==
    IF path \in DOMAIN f.files \/ path \in f.dirs
    THEN [exc |-> "FileExistsError", fs |-> f]
    ELSE [exc |-> "",
          fs  |-> [f EXCEPT !.dirs = @ \cup {SubSeq(path, 1, n) : n \in 0..Len(path)}]]

\* Path.mkdir(parents=True, exist_ok=True)
Mkdir(f, path) ==
    IF path \in DOMAIN f.files
    THEN [exc |-> "FileExistsError", fs |-> f]
    ELSE [exc |-> "",
          fs  |-> [f EXCEPT !.dirs = @ \cup {SubSeq(path, 1, n) : n \in 0..Len(path)}]]

\* open(path, "a") and write: what was in the file stays in front
WriteFileAppend(f, path, doc) ==
    LET q == Resolve(<<>>, path)
    IN  IF q = <<>> \/ Parent(q) \notin f.dirs
        THEN [exc |-> "FileNotFoundError", fs |-> f]
        ELSE IF q \in f.dirs
        THEN [exc |-> "IsADirectoryError", fs |-> f]
        ELSE [exc |-> "",
              fs  |-> [f EXCEPT !.files =
                        [x \in DOMAIN f.files \cup {q} |->
                            IF x # q THEN f.files[x]
                            ELSE IF q \in DOMAIN f.files THEN Append(f.files[q], doc)
                            ELSE <<doc>>]]]

\* open(path, "w") and write: the file is created or truncated, then holds
\* what was written; its directory has to exist
WriteFile(f, path, doc) ==
    LET q == Resolve(<<>>, path)
    IN  IF q = <<>> \/ Parent(q) \notin f.dirs
        THEN [exc |-> "FileNotFoundError", fs |-> f]
        ELSE IF q \in f.dirs
        THEN [exc |-> "IsADirectoryError", fs |-> f]
        ELSE [exc |-> "",
              fs  |-> [f EXCEPT !.files =
                        [x \in DOMAIN f.files \cup {q} |->
                            IF x = q THEN <<doc>> ELSE f.files[x]]]]

\* the text DataFrame.to_csv writes: the header and the rows, preceded by the
\* row index when index is true
RenderCsv(df, index) ==
    [kind    |-> "csv",
     columns |-> IF index THEN <<"">> \o df.columns ELSE df.columns,
     rows    |-> [k \in 1..Len(df.rows) |->
                    IF index THEN <<<<"#">>>> \o df.rows[k] ELSE df.rows[k]],
     raw     |-> ""]

\* df_selected.to_csv(out_csv): index defaults to True
ToCsvIndexed(f, path, df, index) == WriteFile(f, path, RenderCsv(df, TRUE))

\* df_selected.to_csv(out_csv, index=False)
ToCsv(f, path, df, index) == WriteFile(f, path, RenderCsv(df, index))

\* out_px.write_text(r.text, encoding="utf-8")
WriteText(f, path, text) == WriteFile(f, path, text)

\* data_dir / f"{table_id}.px": the identifier's "/" separate path segments
PxPath(table_id) ==
    DataDir \o SubSeq(table_id, 1, Len(table_id) - 1)
            \o <<table_id[Len(table_id)] \o ".px">>

\* data_dir / output_filename
CsvPath(p) == Append(DataDir, OutputFilename(p))

(***************************************************************************)
(* The query configuration.                                                *)
(***************************************************************************)
\* payload.get("response", {}).get("format", "").lower()
Fmt(payload) ==
    Lower(IF payload.hasResponse /\ payload.hasFormat THEN payload.format ELSE <<>>)

\* cfg.get("queryObj"), cfg.get("tableIdForQuery"): an absent key raises nothing
LoadConfigUnchecked(f, path) ==
    LET doc == f.files[path][1]
    IN  IF path \notin DOMAIN f.files
        THEN [exc |-> "FileNotFoundError", cfg |-> <<>>]
        ELSE IF doc.json = "invalid"
        THEN [exc |-> "JSONDecodeError", cfg |-> <<>>]
        ELSE IF doc.json = "array"
        THEN [exc |-> "TypeError", cfg |-> <<>>]
        ELSE [exc |-> "",
              cfg |-> <<[payload |-> doc.queryObj, table_id |-> doc.tableIdForQuery]>>]

\* lines 11-15: open the config file, json.load it, take the two keys
LoadConfig(f, path) ==
    LET doc == f.files[path][1]
    IN  IF path \notin DOMAIN f.files
        THEN [exc |-> "FileNotFoundError", cfg |-> <<>>]
        ELSE IF doc.json = "invalid"
        THEN [exc |-> "JSONDecodeError", cfg |-> <<>>]
        ELSE IF doc.json = "array"
        THEN [exc |-> "TypeError", cfg |-> <<>>]
        ELSE IF "queryObj" \notin doc.keys \/ "tableIdForQuery" \notin doc.keys
        THEN [exc |-> "KeyError", cfg |-> <<>>]
        ELSE [exc |-> "",
              cfg |-> <<[payload |-> doc.queryObj, table_id |-> doc.tableIdForQuery]>>]

\* a status check that raises for server errors only
RaiseForServerError(status) ==
    IF status >= 500 /\ status < 600 THEN "HTTPError" ELSE ""

\* r.raise_for_status(): HTTPError for a 4xx or 5xx status, nothing otherwise
RaiseForStatus(status) ==
    IF status >= 400 /\ status < 600 THEN "HTTPError" ELSE ""

(***************************************************************************)
(* The three branches of the format dispatch, each as the exception it     *)
(* ends with ("" for none), the file system it leaves and what it prints.  *)
(***************************************************************************)
Printed(msg, path, text) == [msg |-> msg, path |-> path, text |-> text]

\* line 33 of 1_SCBdirect_estimate.py: the directory is made before the
\* branch is chosen; 2_SCBpopDensity.py makes it inside the csv and px branches
MkdirAtDispatch(p, f) == IF p = 1 THEN Mkdir(f, DataDir) ELSE [exc |-> "", fs |-> f]

MkdirInBranch(p, f) == IF p = 2 THEN Mkdir(f, DataDir) ELSE [exc |-> "", fs |-> f]

\* if fmt == "csv": parse, rename and select, clean County, save
CsvResult(p, f, body) ==
    LET d1    == MkdirAtDispatch(p, f)
        norm  == NormalizeCsv(p, body)
        d2    == MkdirInBranch(p, d1.fs)
        saved == ToCsv(d2.fs, CsvPath(p), norm.df, FALSE)
    IN  IF d1.exc # "" THEN [exc |-> d1.exc, fs |-> f, out |-> <<>>]
        ELSE IF norm.exc # "" THEN [exc |-> norm.exc, fs |-> d1.fs, out |-> <<>>]
        ELSE IF d2.exc # "" THEN [exc |-> d2.exc, fs |-> d1.fs, out |-> <<>>]
        ELSE IF saved.exc # "" THEN [exc |-> saved.exc, fs |-> d2.fs, out |-> <<>>]
        ELSE [exc |-> "",
              fs  |-> saved.fs,
              out |-> <<Printed("Data saved to", Resolve(<<>>, CsvPath(p)), <<>>)>>]

\* elif fmt == "px": save the response text under the table's name
PxResult(p, f, table_id, body) ==
    LET d1    == MkdirAtDispatch(p, f)
        d2    == MkdirInBranch(p, d1.fs)
        saved == WriteText(d2.fs, PxPath(table_id), body)
    IN  IF d1.exc # "" THEN [exc |-> d1.exc, fs |-> f, out |-> <<>>]
        ELSE IF d2.exc # "" THEN [exc |-> d2.exc, fs |-> d1.fs, out |-> <<>>]
        ELSE IF saved.exc # "" THEN [exc |-> saved.exc, fs |-> d2.fs, out |-> <<>>]
        ELSE [exc |-> "",
              fs  |-> saved.fs,
              out |-> <<Printed("PC-Axis file saved to",
                                Resolve(<<>>, PxPath(table_id)), <<>>)>>]

\* else: print the raw response
UnknownResult(p, f, body) ==
    LET d1 == MkdirAtDispatch(p, f)
    IN  IF d1.exc # "" THEN [exc |-> d1.exc, fs |-> f, out |-> <<>>]
        ELSE [exc |-> "",
              fs  |-> d1.fs,
              out |-> <<Printed("Response format not recognized", <<>>, <<>>),
                        Printed("", <<>>, <<body>>)>>]

(***************************************************************************)
(* The inputs: response tables, response bodies, server replies, config    *)
(* files and the file systems a run starts in.                             *)
(***************************************************************************)
\* region values as SCB sends them, and the shapes the cleaning has to cope
\* with: a space before the code, two codes, the word twice, a capital C,
\* a space after the word, a bare code
Regions ==
    << <<"0", "1", " ", "S", "t", "o", "c", "k", "h", "o", "l", "m", " ", "c", "o", "u", "n", "t", "y">>,
       <<"0", "3", " ", "U", "p", "p", "s", "a", "l", "a", " ", "c", "o", "u", "n", "t", "y">>,
       <<" ", "0", "4", " ", "K", "a", "l", "m", "a", "r", " ", "c", "o", "u", "n", "t", "y">>,
       <<"0", "5", " ", "0", "6", " ", "G", "o", "t", "l", "a", "n", "d", " ", "c", "o", "u", "n", "t", "y">>,
       <<"0", "7", " ", "S", "k", "a", "n", "e", " ", "c", "o", "u", "n", "t", "y", " ", "c", "o", "u", "n", "t", "y">>,
       <<"0", "8", " ", "H", "a", "l", "l", "a", "n", "d", " ", "C", "o", "u", "n", "t", "y">>,
       <<"0", "9", " ", "O", "r", "e", "b", "r", "o", " ", "c", "o", "u", "n", "t", "y", " ">>,
       <<"0", "1", "1", "4">> >>

DigitOf(n) == <<"0", "1", "2", "3", "4", "5", "6", "7", "8", "9">>[(n % 10) + 1]

\* the cell of source row k in the column called c
Cell(k, c) ==
    CASE c = "region" -> Regions[k]
      [] c = "Percent 2025K1" -> <<"4", DigitOf(k + 4), ".", "2">>
      [] c = "Margin of error ± percent 2025K1" -> <<DigitOf(k), ".", "1">>
      [] c = "Population density per sq. km 2024" -> <<"3", DigitOf(k), ".", "7">>
      [] c \in {"Percent_2025K1", "PopDensity_2024"} -> <<"9", DigitOf(k)>>
      [] OTHER -> <<"x", DigitOf(k)>>

\* the column names a response may carry: the dataset's source columns, one
\* that already bears an output name, one that is neither
ColumnNames(p) ==
    IF p = 1
    THEN {"region", "Percent 2025K1", "Margin of error ± percent 2025K1",
          "Percent_2025K1", "observations"}
    ELSE {"region", "Population density per sq. km 2024", "PopDensity_2024",
          "observations"}

\* read_csv gives every column a name of its own
Headers(p) ==
    {h \in UNION {[1..n -> ColumnNames(p)] : n \in 1..MaxCols} :
        \A i, j \in 1..Len(h) : i # j => h[i] # h[j]}

\* the table with header h holding n source rows from row k on
Table(h, k, n) ==
    [kind    |-> "csv",
     columns |-> h,
     rows    |-> [j \in 1..n |->
                    [i \in 1..Len(h) |-> Cell(((k + j - 2) % Len(Regions)) + 1, h[i])]],
     raw     |-> ""]

Tables(p) ==
    {Table(h, k, n) : h \in Headers(p), k \in 1..Len(Regions), n \in 0..MaxRows}

\* a PC-Axis text; read as CSV its first line is a header of one column
PxText ==
    [kind |-> "px", columns |-> <<"AXIS-VERSION=2013;">>, rows |-> <<>>,
     raw |-> "AXIS-VERSION=2013; ... DATA= 45.2 1.1;"]

EmptyText == [kind |-> "empty", columns |-> <<>>, rows |-> <<>>, raw |-> ""]

\* the dataset's table as SCB sends it: the source columns, two rows
SourceHeader(p) ==
    IF p = 1
    THEN <<"region", "Percent 2025K1", "Margin of error ± percent 2025K1">>
    ELSE <<"region", "Population density per sq. km 2024">>

FewBodies(p) == {Table(SourceHeader(p), 1, 2), PxText, EmptyText}

CSV == <<"c", "s", "v">>
PX  == <<"p", "x">>

\* the server answers a csv query with any table; the bodies of the other
\* answers are read by no branch that looks inside them
Bodies(p, payload) ==
    IF Fmt(payload) = CSV THEN Tables(p) \cup FewBodies(p) ELSE FewBodies(p)

StatusCodes == {100, 200, 304, 404, 500}

\* what requests.post meets: no connection, or a response
Replies(p, payload) ==
    {[sent |-> FALSE, status |-> 0, body |-> EmptyText]}
    \cup {[sent |-> TRUE, status |-> 200, body |-> b] : b \in Bodies(p, payload)}
    \cup {[sent |-> TRUE, status |-> st, body |-> b] :
            st \in StatusCodes \ {200}, b \in FewBodies(p)}

Formats == {<<"c", "s", "v">>, <<"C", "S", "V">>, <<"p", "x">>, <<"P", "x">>,
            <<"x", "m", "l">>}

Payloads ==
    {[hasResponse |-> TRUE, hasFormat |-> TRUE, format |-> f] : f \in Formats}
    \cup {[hasResponse |-> TRUE, hasFormat |-> FALSE, format |-> <<>>],
          [hasResponse |-> FALSE, hasFormat |-> FALSE, format |-> <<>>]}

\* tableIdForQuery, split at "/"
TableIds == {<<"BE0101N1">>, <<"..", "BE0101N1">>, <<"sub", "BE0101N1">>}

ConfigDoc(json, keys, payload, tid) ==
    [json |-> json, keys |-> keys, queryObj |-> payload, tableIdForQuery |-> tid]

ConfigDocs ==
    {ConfigDoc(j, {}, CHOOSE q \in Payloads : ~q.hasResponse, <<"BE0101N1">>) :
        j \in {"invalid", "array"}}
    \cup {ConfigDoc("object", ks, q, <<"BE0101N1">>) :
            ks \in {{}, {"queryObj"}, {"tableIdForQuery"}},
            q \in {x \in Payloads : x.hasFormat /\ x.format \in {CSV, PX}}}
    \cup {ConfigDoc("object", {"queryObj", "tableIdForQuery"}, q, t) :
            q \in Payloads, t \in TableIds}

OldDoc == [kind |-> "old", columns |-> <<>>, rows |-> <<>>, raw |-> "an earlier run"]

\* a working directory with data/ and the config file in it, either fresh or
\* holding the output of earlier runs and a subdirectory
FileSystems(p) ==
    {[dirs |-> {<<>>}, files |-> <<>>],
     [dirs |-> {<<>>, DataDir}, files |-> <<>>]}
    \cup {[dirs |-> {<<>>, DataDir}, files |-> (ConfigPath(p) :> <<d>>)] :
            d \in ConfigDocs}
    \cup {[dirs  |-> {<<>>, DataDir, <<"data", "sub">>},
           files |-> (ConfigPath(p) :> <<d>>) @@ (CsvPath(p) :> <<OldDoc>>)
                        @@ (<<"data", "BE0101N1.px">> :> <<OldDoc>>)] :
            d \in ConfigDocs}

(***************************************************************************)
(* The run.                                                                *)
(***************************************************************************)
Init ==
    /\ pipeline \in {1, 2}
    /\ fs \in FileSystems(pipeline)
    /\ pc = "Load"
    /\ run = 1
    /\ cfg = <<>>
    /\ reply = <<>>
    /\ r = <<>>
    /\ err = ""
    /\ out = <<>>
    /\ posts = 0
    /\ steps = <<>>
    /\ fsStart = fs
    /\ fsRun1 = <<>>

\* lines 9-15: load the query object and the table id
Load ==
    /\ pc = "Load"
    /\ LET res == LoadConfig(fs, ConfigPath(pipeline))
       IN  /\ cfg' = res.cfg
           /\ err' = res.exc
           /\ pc' = IF res.exc = "" THEN "Fetch" ELSE "Failed"
    /\ steps' = Append(steps, "Load")
    /\ UNCHANGED <<pipeline, fs, run, reply, r, out, posts, fsStart, fsRun1>>

\* a fetch that posts once more when the first answer is an error status
FetchWithRetry ==
    /\ pc = "Fetch"
    /\ \E a \in (IF reply = <<>> THEN Replies(pipeline, cfg[1].payload) ELSE {reply[1]}) :
        /\ reply' = <<a>>
        /\ r' = IF a.sent THEN <<a>> ELSE <<>>
        /\ err' = IF a.sent THEN RaiseForStatus(a.status) ELSE "ConnectionError"
        /\ pc' = IF err' = "" THEN "Dispatch" ELSE "Failed"
        /\ posts' = posts + (IF err' = "HTTPError" THEN 2 ELSE 1)
    /\ steps' = Append(steps, "Fetch")
    /\ UNCHANGED <<pipeline, fs, run, cfg, out, fsStart, fsRun1>>

\* lines 19-25: requests.post, then r.raise_for_status().  The server's
\* answer is chosen in the first run; the second run meets the same answer
Fetch ==
    /\ pc = "Fetch"
    /\ \E a \in (IF reply = <<>> THEN Replies(pipeline, cfg[1].payload) ELSE {reply[1]}) :
        /\ reply' = <<a>>
        /\ r' = IF a.sent THEN <<a>> ELSE <<>>
        /\ err' = IF a.sent THEN RaiseForStatus(a.status) ELSE "ConnectionError"
        /\ pc' = IF err' = "" THEN "Dispatch" ELSE "Failed"
    /\ posts' = posts + 1
    /\ steps' = Append(steps, "Fetch")
    /\ UNCHANGED <<pipeline, fs, run, cfg, out, fsStart, fsRun1>>

\* the end of a branch: its exception, file system and output
Finish(step, res) ==
    /\ fs' = res.fs
    /\ err' = res.exc
    /\ out' = out \o res.out
    /\ pc' = IF res.exc = "" THEN "Done" ELSE "Failed"
    /\ steps' = Append(steps, step)
    /\ UNCHANGED <<pipeline, run, cfg, reply, r, posts, fsStart, fsRun1>>

\* if fmt == "csv"
CsvBranch ==
    /\ pc = "Dispatch"
    /\ Fmt(cfg[1].payload) = CSV
    /\ Finish("CSV", CsvResult(pipeline, fs, r[1].body))

\* elif fmt == "px"
PxBranch ==
    /\ pc = "Dispatch"
    /\ Fmt(cfg[1].payload) # CSV
    /\ Fmt(cfg[1].payload) = PX
    /\ Finish("PX", PxResult(pipeline, fs, cfg[1].table_id, r[1].body))

\* else
UnknownBranch ==
    /\ pc = "Dispatch"
    /\ Fmt(cfg[1].payload) # CSV
    /\ Fmt(cfg[1].payload) # PX
    /\ Finish("Unknown", UnknownResult(pipeline, fs, r[1].body))

\* the script is run again, on the same config file and the file system the
\* first run left
ReRun ==
    /\ pc \in {"Done", "Failed"}
    /\ run = 1
    /\ run' = 2
    /\ pc' = "Load"
    /\ cfg' = <<>>
    /\ r' = <<>>
    /\ err' = ""
    /\ out' = <<>>
    /\ posts' = 0
    /\ steps' = <<>>
    /\ fsStart' = fs
    /\ fsRun1' = <<fs>>
    /\ UNCHANGED <<pipeline, fs, reply>>

Next == Load \/ Fetch \/ CsvBranch \/ PxBranch \/ UnknownBranch \/ ReRun

Spec == Init /\ [][Next]_vars

(***************************************************************************)
(* Vocabulary of the properties.                                           *)
(***************************************************************************)
Ended == pc \in {"Done", "Failed"}

\* the run got a response that passed raise_for_status and took a branch
Dispatched == Ended /\ Len(steps) = 3

HasConfigFile == ConfigPath(pipeline) \in DOMAIN fsStart.files

ConfigFile == fsStart.files[ConfigPath(pipeline)][1]

\* the format the config declares, "" when queryObj has no response or no
\* format key
Declared ==
    IF cfg[1].payload.hasResponse /\ cfg[1].payload.hasFormat
    THEN cfg[1].payload.format
    ELSE <<>>

\* a equals the lower-case word w when letter case is ignored
SameWord(a, w) == Len(a) = Len(w) /\ \A i \in 1..Len(a) : LowerChar(a[i]) = w[i]

Body == r[1].body

\* the response was a success
Success == r[1].status >= 200 /\ r[1].status < 300

Range(q) == {q[i] : i \in 1..Len(q)}

\* the files whose content differs between two file systems
Changed(f, g) ==
    {x \in DOMAIN f.files \cup DOMAIN g.files :
        \/ x \notin DOMAIN f.files
        \/ x \notin DOMAIN g.files
        \/ f.files[x] # g.files[x]}

\* the table the csv branch saved
Written == fs.files[CsvPath(pipeline)][1]

\* the position of the column called name in the response table
ColOf(name) == CHOOSE i \in 1..Len(Body.columns) : Body.columns[i] = name

Stockholm == <<"S", "t", "o", "c", "k", "h", "o", "l", "m">>

(***************************************************************************)
(* C1: a config file that parses as JSON but lacks tableIdForQuery or      *)
(* queryObj makes the run fail at Load, before any requests.post, and the  *)
(* file system stays as the run found it.                                  *)
(***************************************************************************)
LacksKey ==
    /\ HasConfigFile
    /\ \/ ConfigFile.json = "array"
       \/ ConfigFile.json = "object"
          /\ ConfigFile.keys # {"queryObj", "tableIdForQuery"}

C1_MissingKeyFailsAtLoad ==
    LacksKey =>
        /\ posts = 0
        /\ fs = fsStart
        /\ steps \in {<<>>, <<"Load">>}
        /\ steps = <<"Load">> => pc = "Failed" /\ err \in {"KeyError", "TypeError"}

C1_Witness ==
    /\ HasConfigFile
    /\ ConfigFile.json = "object"
    /\ ConfigFile.keys = {"queryObj"}
    /\ pc = "Failed"
    /\ err = "KeyError"
    /\ CsvPath(pipeline) \in DOMAIN fs.files

(***************************************************************************)
(* C2 as stated: every response whose status is not 2xx (1xx and 3xx too)  *)
(* makes Fetch fail with HTTPError, no branch is taken and the file system *)
(* stays as the run found it.                                              *)
(***************************************************************************)
FetchFailed ==
    /\ pc = "Failed"
    /\ err = "HTTPError"
    /\ steps = <<"Load", "Fetch">>
    /\ fs = fsStart
    /\ out = <<>>

CleanName(v) ==
    /\ v = <<>> \/ Head(v) \notin Digits
    /\ v = <<>> \/ (Head(v) \notin Spaces /\ v[Len(v)] \notin Spaces)
    /\ Len(v) < 6 \/ ~SameWord(SubSeq(v, Len(v) - 5, Len(v)), CountyWord)

C3_CountyValuesClean ==
    (pc = "Done" /\ steps = <<"Load", "Fetch", "CSV">>) =>
        \A k \in 1..Len(Written.rows) : CleanName(Written.rows[k][1])

(***************************************************************************)
(* C4: when the fetch succeeded and the declared format, letter case       *)
(* ignored, is neither csv nor px (or queryObj declares none), the run     *)
(* prints the raw response body, leaves the file system as it found it and *)
(* ends without an error.                                                  *)
(***************************************************************************)
C4_UnknownFormatPrintsBody ==
    (Dispatched /\ ~SameWord(Declared, CSV) /\ ~SameWord(Declared, PX)) =>
        /\ pc = "Done"
        /\ err = ""
        /\ steps[3] = "Unknown"
        /\ fs = fsStart
        /\ Len(out) = 2
        /\ out[2].text = <<Body>>

C4_Witness ==
    /\ pipeline = 1
    /\ pc = "Done"
    /\ steps = <<"Load", "Fetch", "Unknown">>
    /\ ~cfg[1].payload.hasResponse
    /\ Body = PxText

(***************************************************************************)
(* C5: when the fetch succeeded (a 2xx response) and the declared format   *)
(* is px in any letter case, the run writes the file <tableIdForQuery>.px  *)
(* of the data directory, holding exactly the response body, and no other  *)
(* file.                                                                   *)
(***************************************************************************)
C5_PxWritten ==
    (Dispatched /\ Success /\ SameWord(Declared, PX)) =>
        /\ pc = "Done"
        /\ steps[3] = "PX"
        /\ Resolve(<<>>, PxPath(cfg[1].table_id)) \in DOMAIN fs.files
        /\ fs.files[Resolve(<<>>, PxPath(cfg[1].table_id))] = <<Body>>
        /\ Changed(fsStart, fs) \subseteq {Resolve(<<>>, PxPath(cfg[1].table_id))}
        /\ fs.dirs = fsStart.dirs

(***************************************************************************)
(* C6 as stated: with declared format csv, every response table holding    *)
(* the dataset's source columns (among others, in any order) is written    *)
(* with exactly the output columns in their order, no index column, as     *)
(* many rows in the same order and the measure values unchanged; the row   *)
(* "01 Stockholm county,45.2,1.1" is written as "Stockholm,45.2,1.1".      *)
(***************************************************************************)
HasSourceColumns == Range(SourceHeader(pipeline)) \subseteq Range(Body.columns)

CsvCase == Dispatched /\ SameWord(Declared, CSV) /\ Body.kind = "csv"

TableWritten ==
    /\ pc = "Done"
    /\ err = ""
    /\ CsvPath(pipeline) \in DOMAIN fs.files
    /\ Len(fs.files[CsvPath(pipeline)]) = 1
    /\ Written.kind = "csv"
    /\ Written.columns = Selection(pipeline)
    /\ Len(Written.rows) = Len(Body.rows)
    /\ \A k \in 1..Len(Body.rows) :
        /\ Len(Written.rows[k]) = Len(Selection(pipeline))
        /\ \A j \in 2..Len(Selection(pipeline)) :
            Written.rows[k][j] = Body.rows[k][ColOf(SourceHeader(pipeline)[j])]
        /\ Body.rows[k][ColOf("region")] = Regions[1] => Written.rows[k][1] = Stockholm
    /\ Changed(fsStart, fs) \subseteq {CsvPath(pipeline)}

C6_Original == (CsvCase /\ HasSourceColumns) => TableWritten

(***************************************************************************)
(* C6 amended: the same, for every response table none of whose columns    *)
(* already bears an output column name and whose region column is read as  *)
(* text (not every region value a number).                                 *)
(***************************************************************************)
NoOutputName == Range(Body.columns) \cap Range(Selection(pipeline)) = {}

RegionIsText ==
    \/ Body.rows = <<>>
    \/ \E k \in 1..Len(Body.rows) : ~IsNumeric(Body.rows[k][ColOf("region")])

C6_TableWritten ==
    (CsvCase /\ HasSourceColumns /\ NoOutputName /\ RegionIsText) => TableWritten

C6_Witness ==
    /\ pipeline = 1
    /\ CsvCase
    /\ Body.columns = <<"observations", "Margin of error ± percent 2025K1",
                        "region", "Percent 2025K1">>
    /\ Len(Body.rows) = 2
    /\ Body.rows[2][3] = Regions[1]
    /\ pc = "Done"
    /\ Written.rows[2] = <<Stockholm, <<"4", "5", ".", "2">>, <<"1", ".", "1">>>>

(***************************************************************************)
(* C7: a second run on the same config file and the same response leaves   *)
(* the file system as the first run left it.                               *)
(***************************************************************************)
C7_SecondRunChangesNothing == (run = 2 /\ Ended) => fs = fsRun1[1]

C7_Witness ==
    /\ run = 2
    /\ pc = "Done"
    /\ steps = <<"Load", "Fetch", "CSV">>
    /\ Len(Written.rows) = 2
    /\ fs.files[CsvPath(pipeline)] = <<Written>>
    /\ fs.dirs = {<<>>, DataDir}

(***************************************************************************)
(* C8: a run is Load, then Fetch, then one of the three branches, each at  *)
(* most once; one requests.post per run that loaded its config and none    *)
(* otherwise; nothing is written or printed before the post; a run that    *)
(* failed executes nothing more.                                           *)
(***************************************************************************)
OnePath ==
    /\ Len(steps) <= 3
    /\ Len(steps) >= 1 => steps[1] = "Load"
    /\ Len(steps) >= 2 => steps[2] = "Fetch"
    /\ Len(steps) = 3 => steps[3] \in {"CSV", "PX", "Unknown"}
    /\ posts = (IF Len(steps) >= 2 THEN 1 ELSE 0)
    /\ (Ended /\ cfg # <<>>) => posts = 1
    /\ (fs # fsStart \/ out # <<>>) => (posts = 1 /\ Len(steps) = 3)
    /\ (pc = "Failed") = (err # "")
    /\ (pc = "Failed" /\ cfg = <<>>) => steps = <<"Load">>
    /\ (pc = "Failed" /\ r = <<>>) => Len(steps) <= 2
    /\ (pc = "Failed" /\ err \in {"HTTPError", "ConnectionError"}) =>
            steps = <<"Load", "Fetch">>

FailureIsTerminal ==
    pc = "Failed" =>
        \/ UNCHANGED <<pc, steps, posts, fs, out, err>>
        \/ run' = run + 1 /\ steps' = <<>> /\ fs' = fs

SelectionFailed ==
    /\ pc = "Failed"
    /\ err = "KeyError"
    /\ steps[3] = "CSV"
    /\ fs = fsStart
    /\ out = <<>>

C9_Original == (CsvCase /\ ~HasSourceColumns) => SelectionFailed

(***************************************************************************)
(* C9 amended: with declared format csv, a response table that lacks a     *)
(* source column and has no column already bearing that column's output    *)
(* name makes the run fail with KeyError at the column selection, and the  *)
(* output file is neither created nor modified.                            *)
(***************************************************************************)
LacksOutputColumn ==
    \E c \in DOMAIN RenameMap(pipeline) :
        /\ c \notin Range(Body.columns)
        /\ RenameMap(pipeline)[c] \notin Range(Body.columns)

C9_MissingColumnFails == (CsvCase /\ LacksOutputColumn) => SelectionFailed

C9_Witness ==
    /\ CsvCase
    /\ Body.columns = <<"region", "observations">>
    /\ Len(Body.rows) = 2
    /\ pc = "Failed"
    /\ CsvPath(pipeline) \in DOMAIN fs.files
    /\ fs.files[CsvPath(pipeline)] = <<OldDoc>>

(***************************************************************************)
(* C10: whatever tableIdForQuery and the declared format are, a run (here  *)
(* one that got a 2xx response) changes at most one file, that file lies   *)
(* directly inside data/ and is the pipeline's csv file or <tableId>.px,   *)
(* and the config file is not it.                                          *)
(***************************************************************************)
C10_WritesInsideData ==
    (r # <<>> /\ Success) =>
    /\ Cardinality(Changed(fsStart, fs)) <= 1
    /\ ConfigPath(pipeline) \notin Changed(fsStart, fs)
    /\ \A x \in Changed(fsStart, fs) :
        /\ Len(x) = 2
        /\ x[1] = "data"
        /\ x = CsvPath(pipeline) \/ x = PxPath(<<cfg[1].table_id[Len(cfg[1].table_id)]>>)

====
